---- MODULE Spec2Model ----
(***************************************************************************)
(* State-machine model of the BargainFHE contract (src/unnamed/part_001).  *)
(* Each external function is one atomic action (an EVM transaction either  *)
(* commits all its writes and events or reverts).  A reverted call leaves  *)
(* no trace on chain: it is a stuttering step, and its revert reason is    *)
(* the value of the function's ...Err operator in the state it ran in.     *)
(***************************************************************************)
EXTENDS Integers, Naturals, Sequences, FiniteSets, TLC

\* ---------------------------------------------------------------- bounds
NumAddr     == 2    \* externally owned accounts 1..NumAddr (address(0) is 0)
MaxTime     == 2    \* block.timestamp ranges over 1..MaxTime
MaxPrice    == 1    \* clear prices range over 0..MaxPrice
MaxHandle   == 2    \* initialized ciphertext handles 1..MaxHandle (0 = uninitialized)
MaxSessions == 2    \* cap on the number of successful createSession calls
MaxActive   == 1    \* cap on the number of sessions taken beyond creation

ZeroAddress == 0
Addresses   == 1..NumAddr
Prices      == 0..MaxPrice
Handles     == 0..MaxHandle

\* The provisional prices callers pass: any price for the caller's own side,
\* and the top price as the creator's placeholder for the absent seller.
OwnGuesses         == Prices
PlaceholderGuesses == {MaxPrice}

\* ------------------------------------------------------- library boundary
\* keccak256(abi.encodePacked(msg.sender, block.timestamp)): a deterministic,
\* collision-free digest of the pair (sender, time).
SessionIdOf(sender, t) == (sender - 1) * MaxTime + t

SessionIdSet == 1..(NumAddr * MaxTime)

\* The plaintext behind an initialized ciphertext handle.
Plain(h) == (h - 1) % (MaxPrice + 1)

\* An external ciphertext with its input proof: the handle it claims and
\* whether the input proof verifies.
ExternalInputs ==
    {[handle |-> 0, proofOK |-> FALSE]} \cup [handle : Handles, proofOK : {TRUE}]

\* FHE.fromExternal: reverts when the input proof does not verify, otherwise
\* yields the handle.  -1 stands for the revert.
fromExternal(ext) == IF ext.proofOK THEN ext.handle ELSE -1

\* FHE.isInitialized: the handle is not the zero handle.
isInitialized(h) == h # 0

\* A decryption proof is either garbage (0) or the key-management service's
\* signature over (handle p, Plain(p)); the service signs true decryptions only.
DecryptionProofs == 0..MaxHandle

\* FHE.checkSignatures(cts, abiEncodedClearValue, decryptionProof) passes iff
\* the proof is a signature over exactly this handle and this clear value.
checkSignatures(ct, clear, proof) ==
    /\ proof # 0
    /\ proof = ct
    /\ clear = Plain(proof)

\* ------------------------------------------------------------------ state
VARIABLES
    sessions,        \* mapping(bytes32 => BargainSession)
    sessionIds,      \* bytes32[]
    events,          \* the emitted events, in order
    now,             \* block.timestamp
    created,         \* the ids returned by createSession, in order
    checkDealCalls   \* per session, how many times checkDeal has run

vars == <<sessions, sessionIds, events, now, created, checkDealCalls>>

\* The value of a mapping slot that was never written.
EmptySession ==
    [buyer |-> ZeroAddress, seller |-> ZeroAddress,
     encryptedBuyerPrice |-> 0, encryptedSellerPrice |-> 0,
     publicBuyerPrice |-> 0, publicSellerPrice |-> 0,
     buyerRevealed |-> FALSE, sellerRevealed |-> FALSE,
     dealMatched |-> FALSE, timestamp |-> 0]

\* The struct literal with the two provisional prices in each other's place.
NewSessionSwapped(sender, encB, encS, pubB, pubS, t) ==
    [buyer |-> sender, seller |-> ZeroAddress,
     encryptedBuyerPrice |-> encB, encryptedSellerPrice |-> encS,
     publicBuyerPrice |-> pubS, publicSellerPrice |-> pubB,
     buyerRevealed |-> FALSE, sellerRevealed |-> FALSE,
     dealMatched |-> FALSE, timestamp |-> t]

\* The struct literal without its timestamp.
NewSessionNoStamp(sender, encB, encS, pubB, pubS, t) ==
    [buyer |-> sender, seller |-> ZeroAddress,
     encryptedBuyerPrice |-> encB, encryptedSellerPrice |-> encS,
     publicBuyerPrice |-> pubB, publicSellerPrice |-> pubS,
     buyerRevealed |-> FALSE, sellerRevealed |-> FALSE,
     dealMatched |-> FALSE, timestamp |-> 0]

\* The struct literal createSession stores.
NewSession(sender, encB, encS, pubB, pubS, t) ==
    [buyer |-> sender, seller |-> ZeroAddress,
     encryptedBuyerPrice |-> encB, encryptedSellerPrice |-> encS,
     publicBuyerPrice |-> pubB, publicSellerPrice |-> pubS,
     buyerRevealed |-> FALSE, sellerRevealed |-> FALSE,
     dealMatched |-> FALSE, timestamp |-> t]

SessionCreated(id, buyer, seller) ==
    [name |-> "SessionCreated", sessionId |-> id, buyer |-> buyer, seller |-> seller]

PriceRevealed(id, revealer, price) ==
    [name |-> "PriceRevealed", sessionId |-> id, revealer |-> revealer, price |-> price]

DealMatched(id, price) ==
    [name |-> "DealMatched", sessionId |-> id, price |-> price]

\* The caps that keep the explored runs finite: a session is active once it
\* has been joined or revealed in.
Active(ss, id) ==
    ss[id].seller # ZeroAddress \/ ss[id].buyerRevealed \/ ss[id].sellerRevealed

Room(id) ==
    Active(sessions, id) \/ Cardinality({i \in SessionIdSet : Active(sessions, i)}) < MaxActive

Init ==
    /\ sessions = [id \in SessionIdSet |-> EmptySession]
    /\ sessionIds = <<>>
    /\ events = <<>>
    /\ now = 1
    /\ created = <<>>
    /\ checkDealCalls = [id \in SessionIdSet |-> 0]

\* ------------------------------------------------------------ createSession
\* createSession without its existence check: a colliding id overwrites.
CreateErrNoExistCheck(ss, id, extB, extS) ==
    IF fromExternal(extB) = -1 \/ fromExternal(extS) = -1 THEN "InvalidEncryption"
    ELSE IF ~isInitialized(fromExternal(extB)) THEN "InvalidEncryption"
    ELSE IF ~isInitialized(fromExternal(extS)) THEN "InvalidEncryption"
    ELSE "ok"

\* createSession taking an id as used only once its session has been joined.
CreateErrJoinedOnly(ss, id, extB, extS) ==
    IF ss[id].seller # ZeroAddress THEN "AlreadyExists"
    ELSE IF fromExternal(extB) = -1 \/ fromExternal(extS) = -1 THEN "InvalidEncryption"
    ELSE IF ~isInitialized(fromExternal(extB)) THEN "InvalidEncryption"
    ELSE IF ~isInitialized(fromExternal(extS)) THEN "InvalidEncryption"
    ELSE "ok"

\* The require/revert chain of createSession, in source order.
CreateErr(ss, id, extB, extS) ==
    IF ss[id].timestamp # 0 THEN "AlreadyExists"
    ELSE IF fromExternal(extB) = -1 \/ fromExternal(extS) = -1 THEN "InvalidEncryption"
    ELSE IF ~isInitialized(fromExternal(extB)) THEN "InvalidEncryption"
    ELSE IF ~isInitialized(fromExternal(extS)) THEN "InvalidEncryption"
    ELSE "ok"

\* The new id put at the head of the list instead of its end.
PushIdFront(ids, id) == <<id>> \o ids

\* sessionIds.push(sessionId)
PushId(ids, id) == Append(ids, id)

createSession(sender, extB, extS, pubB, pubS) ==
    LET id   == SessionIdOf(sender, now)
        err  == CreateErr(sessions, id, extB, extS)
    IN  /\ err = "ok" => Len(created) < MaxSessions
        /\ IF err = "ok"
           THEN /\ sessions' = [sessions EXCEPT ![id] =
                        NewSession(sender, fromExternal(extB), fromExternal(extS),
                                   pubB, pubS, now)]
                /\ sessionIds' = PushId(sessionIds, id)
                /\ events' = Append(events, SessionCreated(id, sender, ZeroAddress))
                /\ created' = Append(created, id)
           ELSE UNCHANGED <<sessions, sessionIds, events, created>>
        /\ UNCHANGED <<now, checkDealCalls>>

\* -------------------------------------------------------------- joinSession
\* joinSession without its already-joined check: a later join rebinds the seller.
JoinErrNoOnce(ss, id, extS) ==
    IF ~(ss[id].timestamp > 0) THEN "NotFound"
    ELSE IF fromExternal(extS) = -1 THEN "InvalidEncryption"
    ELSE IF ~isInitialized(fromExternal(extS)) THEN "InvalidEncryption"
    ELSE "ok"

\* The require/revert chain of joinSession, in source order.
JoinErr(ss, id, extS) ==
    IF ~(ss[id].timestamp > 0) THEN "NotFound"
    ELSE IF ss[id].seller # ZeroAddress THEN "AlreadyJoined"
    ELSE IF fromExternal(extS) = -1 THEN "InvalidEncryption"
    ELSE IF ~isInitialized(fromExternal(extS)) THEN "InvalidEncryption"
    ELSE "ok"

\* joinSession storing a fresh struct, which clears the reveal flags.
JoinWriteFresh(s, sender, encS, pubS) ==
    [NewSession(s.buyer, s.encryptedBuyerPrice, encS, s.publicBuyerPrice, pubS, s.timestamp)
        EXCEPT !.seller = sender]

\* joinSession without the write of the seller's provisional price.
JoinWriteNoPrice(s, sender, encS, pubS) ==
    [s EXCEPT !.seller = sender,
              !.encryptedSellerPrice = encS]

\* joinSession keeping the seller ciphertext that create had stored.
JoinWriteKeepHandle(s, sender, encS, pubS) ==
    [s EXCEPT !.seller = sender,
              !.publicSellerPrice = pubS]

\* The three field writes of joinSession.
JoinWrite(s, sender, encS, pubS) ==
    [s EXCEPT !.seller = sender,
              !.encryptedSellerPrice = encS,
              !.publicSellerPrice = pubS]

\* joinSession with its writes ahead of the ciphertext check and the failure
\* returned instead of reverted: a rejected join leaves its writes behind.
joinSessionWriteFirst(sender, id, extS, pubS) ==
    LET err  == JoinErr(sessions, id, extS)
    IN  /\ err = "ok" => Room(id)
        /\ IF err \in {"ok", "InvalidEncryption"}
           THEN /\ sessions' = [sessions EXCEPT ![id] =
                        JoinWrite(sessions[id], sender, extS.handle, pubS)]
                /\ events' = IF err = "ok"
                             THEN Append(events, SessionCreated(id, sessions[id].buyer, sender))
                             ELSE events
           ELSE UNCHANGED <<sessions, events>>
        /\ UNCHANGED <<sessionIds, now, created, checkDealCalls>>

joinSession(sender, id, extS, pubS) ==
    LET err  == JoinErr(sessions, id, extS)
    IN  /\ err = "ok" => Room(id)
        /\ IF err = "ok"
           THEN /\ sessions' = [sessions EXCEPT ![id] =
                        JoinWrite(sessions[id], sender, fromExternal(extS), pubS)]
                /\ events' = Append(events, SessionCreated(id, sessions[id].buyer, sender))
           ELSE UNCHANGED <<sessions, events>>
        /\ UNCHANGED <<sessionIds, now, created, checkDealCalls>>

\* ---------------------------------------------------------------- checkDeal
\* A strict comparison, as a tie-dropping slip would have it.
MatchedStrict(pubB, pubS) == pubB > pubS

\* The comparison of checkDeal.
Matched(pubB, pubS) == pubB >= pubS

\* The buyer's bid emitted as the settlement price.
SettlementPriceBuyer(s) == s.publicBuyerPrice

\* The price checkDeal emits with DealMatched.
SettlementPrice(s) == s.publicSellerPrice

\* checkDeal that sets the flag and emits nothing.
checkDealSilent(st, id) ==
    LET s == st.sessions[id]
    IN  IF Matched(s.publicBuyerPrice, s.publicSellerPrice)
        THEN [st EXCEPT !.sessions[id].dealMatched = TRUE,
                        !.checkDealCalls[id] = @ + 1]
        ELSE [st EXCEPT !.checkDealCalls[id] = @ + 1]

\* checkDeal run as a sweep over the whole table: every existing session
\* whose prices match is marked, the event is emitted for the one asked about.
checkDealSweep(st, id) ==
    LET s == st.sessions[id]
        swept == [i \in DOMAIN st.sessions |->
                    IF st.sessions[i].timestamp # 0
                       /\ Matched(st.sessions[i].publicBuyerPrice,
                                  st.sessions[i].publicSellerPrice)
                    THEN [st.sessions[i] EXCEPT !.dealMatched = TRUE]
                    ELSE st.sessions[i]]
    IN  [sessions |-> swept,
         events |-> IF Matched(s.publicBuyerPrice, s.publicSellerPrice)
                    THEN Append(st.events, DealMatched(id, SettlementPrice(s)))
                    ELSE st.events,
         checkDealCalls |-> [st.checkDealCalls EXCEPT ![id] = @ + 1]]

\* checkDeal on a state st = [sessions, events, checkDealCalls].
checkDeal(st, id) ==
    LET s == st.sessions[id]
    IN  IF Matched(s.publicBuyerPrice, s.publicSellerPrice)
        THEN [sessions |-> [st.sessions EXCEPT ![id].dealMatched = TRUE],
              events |-> Append(st.events, DealMatched(id, SettlementPrice(s))),
              checkDealCalls |-> [st.checkDealCalls EXCEPT ![id] = @ + 1]]
        ELSE [st EXCEPT !.checkDealCalls[id] = @ + 1]

\* --------------------------------------------------------- revealBuyerPrice
\* revealBuyerPrice without its already-revealed check.
RevealBuyerErrNoOnce(ss, sender, id, clear, proof) ==
    IF ~(ss[id].timestamp > 0) THEN "NotFound"
    ELSE IF sender # ss[id].buyer THEN "Unauthorized"
    ELSE IF ~checkSignatures(ss[id].encryptedBuyerPrice, clear, proof) THEN "InvalidProof"
    ELSE "ok"

\* revealBuyerPrice verifying the proof ahead of its caller and flag checks.
RevealBuyerErrProofFirst(ss, sender, id, clear, proof) ==
    IF ~(ss[id].timestamp > 0) THEN "NotFound"
    ELSE IF ~checkSignatures(ss[id].encryptedBuyerPrice, clear, proof) THEN "InvalidProof"
    ELSE IF sender # ss[id].buyer THEN "Unauthorized"
    ELSE IF ss[id].buyerRevealed THEN "AlreadyRevealed"
    ELSE "ok"

\* The require/revert chain of revealBuyerPrice, in source order.
RevealBuyerErr(ss, sender, id, clear, proof) ==
    IF ~(ss[id].timestamp > 0) THEN "NotFound"
    ELSE IF sender # ss[id].buyer THEN "Unauthorized"
    ELSE IF ss[id].buyerRevealed THEN "AlreadyRevealed"
    ELSE IF ~checkSignatures(ss[id].encryptedBuyerPrice, clear, proof) THEN "InvalidProof"
    ELSE "ok"

\* The buyer's clear value written into the seller's price field.
BuyerWriteSellerSlot(s, price) ==
    [s EXCEPT !.publicSellerPrice = price, !.buyerRevealed = TRUE]

\* revealBuyerPrice setting its flag and keeping the price already stored.
BuyerWriteFlagOnly(s, price) ==
    [s EXCEPT !.buyerRevealed = TRUE]

\* The two field writes of revealBuyerPrice.
BuyerWrite(s, price) ==
    [s EXCEPT !.publicBuyerPrice = price, !.buyerRevealed = TRUE]

\* checkDeal called by every buyer reveal, the guard forgotten.
BuyerTriggersAlways(s) == TRUE

\* checkDeal never called by the buyer's reveal.
BuyerTriggersNever(s) == FALSE

\* The condition under which revealBuyerPrice calls checkDeal.
BuyerTriggers(s) == s.sellerRevealed

\* revealBuyerPrice with its PriceRevealed emitted after the call of checkDeal.
BuyerRevealEmitLast(st, sender, id, clear) ==
    LET st1 == [st EXCEPT !.sessions[id] = BuyerWrite(st.sessions[id], clear)]
        st2 == IF BuyerTriggers(st1.sessions[id]) THEN checkDeal(st1, id) ELSE st1
    IN  [st2 EXCEPT !.events = Append(st2.events, PriceRevealed(id, sender, clear))]

\* What revealBuyerPrice does once its checks have passed, on a state
\* st = [sessions, events, checkDealCalls].
BuyerReveal(st, sender, id, clear) ==
    LET st1 == [st EXCEPT !.sessions[id] = BuyerWrite(st.sessions[id], clear),
                          !.events = Append(st.events, PriceRevealed(id, sender, clear))]
    IN  IF BuyerTriggers(st1.sessions[id]) THEN checkDeal(st1, id) ELSE st1

revealBuyerPrice(sender, id, clear, proof) ==
    LET err  == RevealBuyerErr(sessions, sender, id, clear, proof)
        st2  == BuyerReveal([sessions |-> sessions, events |-> events,
                             checkDealCalls |-> checkDealCalls], sender, id, clear)
    IN  /\ err = "ok" => Room(id)
        /\ IF err = "ok"
           THEN /\ sessions' = st2.sessions
                /\ events' = st2.events
                /\ checkDealCalls' = st2.checkDealCalls
           ELSE UNCHANGED <<sessions, events, checkDealCalls>>
        /\ UNCHANGED <<sessionIds, now, created>>

\* -------------------------------------------------------- revealSellerPrice
\* revealSellerPrice without its caller check: anyone holding a proof reveals.
RevealSellerErrAnyone(ss, sender, id, clear, proof) ==
    IF ~(ss[id].timestamp > 0) THEN "NotFound"
    ELSE IF ss[id].sellerRevealed THEN "AlreadyRevealed"
    ELSE IF ~checkSignatures(ss[id].encryptedSellerPrice, clear, proof) THEN "InvalidProof"
    ELSE "ok"

\* revealSellerPrice without its once-only check: the seller reveals again.
RevealSellerErrNoOnce(ss, sender, id, clear, proof) ==
    IF ~(ss[id].timestamp > 0) THEN "NotFound"
    ELSE IF sender # ss[id].seller THEN "Unauthorized"
    ELSE IF ~checkSignatures(ss[id].encryptedSellerPrice, clear, proof) THEN "InvalidProof"
    ELSE "ok"

\* revealSellerPrice accepted only once the buyer has revealed.
RevealSellerErrBuyerFirst(ss, sender, id, clear, proof) ==
    IF ~(ss[id].timestamp > 0) THEN "NotFound"
    ELSE IF sender # ss[id].seller THEN "Unauthorized"
    ELSE IF ss[id].sellerRevealed THEN "AlreadyRevealed"
    ELSE IF ~ss[id].buyerRevealed THEN "Unauthorized"
    ELSE IF ~checkSignatures(ss[id].encryptedSellerPrice, clear, proof) THEN "InvalidProof"
    ELSE "ok"

\* The require/revert chain of revealSellerPrice, in source order.
RevealSellerErr(ss, sender, id, clear, proof) ==
    IF ~(ss[id].timestamp > 0) THEN "NotFound"
    ELSE IF sender # ss[id].seller THEN "Unauthorized"
    ELSE IF ss[id].sellerRevealed THEN "AlreadyRevealed"
    ELSE IF ~checkSignatures(ss[id].encryptedSellerPrice, clear, proof) THEN "InvalidProof"
    ELSE "ok"

\* The two field writes of revealSellerPrice.
SellerWrite(s, price) ==
    [s EXCEPT !.publicSellerPrice = price, !.sellerRevealed = TRUE]

\* The seller's reveal testing its own flag instead of the buyer's.
SellerTriggersOwnFlag(s) == s.sellerRevealed

\* The condition under which revealSellerPrice calls checkDeal.
SellerTriggers(s) == s.buyerRevealed

\* What revealSellerPrice does once its checks have passed.
SellerReveal(st, sender, id, clear) ==
    LET st1 == [st EXCEPT !.sessions[id] = SellerWrite(st.sessions[id], clear),
                          !.events = Append(st.events, PriceRevealed(id, sender, clear))]
    IN  IF SellerTriggers(st1.sessions[id]) THEN checkDeal(st1, id) ELSE st1

revealSellerPrice(sender, id, clear, proof) ==
    LET err  == RevealSellerErr(sessions, sender, id, clear, proof)
        st2  == SellerReveal([sessions |-> sessions, events |-> events,
                              checkDealCalls |-> checkDealCalls], sender, id, clear)
    IN  /\ err = "ok" => Room(id)
        /\ IF err = "ok"
           THEN /\ sessions' = st2.sessions
                /\ events' = st2.events
                /\ checkDealCalls' = st2.checkDealCalls
           ELSE UNCHANGED <<sessions, events, checkDealCalls>>
        /\ UNCHANGED <<sessionIds, now, created>>

\* ---------------------------------------------------------------- the views
\* The answer of a view whose require failed.
NotFound == [err |-> "NotFound"]

\* getEncryptedPrices: its require, then the two stored handles.
getEncryptedPricesReturn(ss, id) ==
    IF ~(ss[id].timestamp > 0) THEN NotFound
    ELSE [err |-> "ok",
          encryptedBuyerPrice |-> ss[id].encryptedBuyerPrice,
          encryptedSellerPrice |-> ss[id].encryptedSellerPrice]

\* getSession without its require: a missing id answers with the zero struct.
getSessionReturnNoCheck(ss, id) ==
    [err |-> "ok",
     buyer |-> ss[id].buyer, seller |-> ss[id].seller,
     publicBuyerPrice |-> ss[id].publicBuyerPrice,
     publicSellerPrice |-> ss[id].publicSellerPrice,
     buyerRevealed |-> ss[id].buyerRevealed,
     sellerRevealed |-> ss[id].sellerRevealed,
     dealMatched |-> ss[id].dealMatched,
     timestamp |-> ss[id].timestamp]

\* getSession: its require, then the eight fields it returns.
getSessionReturn(ss, id) ==
    IF ~(ss[id].timestamp > 0) THEN NotFound
    ELSE [err |-> "ok",
          buyer |-> ss[id].buyer, seller |-> ss[id].seller,
          publicBuyerPrice |-> ss[id].publicBuyerPrice,
          publicSellerPrice |-> ss[id].publicSellerPrice,
          buyerRevealed |-> ss[id].buyerRevealed,
          sellerRevealed |-> ss[id].sellerRevealed,
          dealMatched |-> ss[id].dealMatched,
          timestamp |-> ss[id].timestamp]

\* getAllSessionIds returns the array.
getAllSessionIdsReturn(ids) == ids

\* isAvailable returns true.
isAvailableReturn == TRUE

\* The four calls: view and pure functions, which write nothing and emit
\* nothing; what each answers is given by the operators above.
getEncryptedPrices(id) == UNCHANGED vars

getSession(id) == UNCHANGED vars

getAllSessionIds == UNCHANGED vars

isAvailable == UNCHANGED vars

\* ---------------------------------------------------------------- the chain
\* A later block: block.timestamp never decreases and may stay the same for
\* several transactions of one block.
NextBlock ==
    /\ now < MaxTime
    /\ now' = now + 1
    /\ UNCHANGED <<sessions, sessionIds, events, created, checkDealCalls>>

Next ==
    \/ \E a \in Addresses, extB \in ExternalInputs, extS \in ExternalInputs,
          pubB \in OwnGuesses, pubS \in PlaceholderGuesses :
            createSession(a, extB, extS, pubB, pubS)
    \/ \E a \in Addresses, id \in SessionIdSet, extS \in ExternalInputs, pubS \in OwnGuesses :
            joinSession(a, id, extS, pubS)
    \/ \E a \in Addresses, id \in SessionIdSet, clear \in Prices, proof \in DecryptionProofs :
            revealBuyerPrice(a, id, clear, proof)
    \/ \E a \in Addresses, id \in SessionIdSet, clear \in Prices, proof \in DecryptionProofs :
            revealSellerPrice(a, id, clear, proof)
    \/ \E id \in SessionIdSet : getEncryptedPrices(id)
    \/ \E id \in SessionIdSet : getSession(id)
    \/ getAllSessionIds
    \/ isAvailable
    \/ NextBlock

Spec == Init /\ [][Next]_vars

\* The buyer of session id reveals with a proof that verifies.
ValidBuyerReveal(id) ==
    \E clear \in Prices, proof \in DecryptionProofs :
        /\ RevealBuyerErr(sessions, sessions[id].buyer, id, clear, proof) = "ok"
        /\ revealBuyerPrice(sessions[id].buyer, id, clear, proof)

\* The seller of session id reveals with a proof that verifies.
ValidSellerReveal(id) ==
    \E clear \in Prices, proof \in DecryptionProofs :
        /\ RevealSellerErr(sessions, sessions[id].seller, id, clear, proof) = "ok"
        /\ revealSellerPrice(sessions[id].seller, id, clear, proof)

\* The contract with parties that do not withhold a reveal for ever: a valid
\* reveal that stays possible is eventually made.
FairSpec ==
    /\ Spec
    /\ \A id \in SessionIdSet :
          WF_vars(ValidBuyerReveal(id)) /\ WF_vars(ValidSellerReveal(id))

\* ------------------------------------------------------------ vocabulary
Exists(id) == sessions[id].timestamp # 0

BothRevealed(s) == s.buyerRevealed /\ s.sellerRevealed

OneRevealed(s) == s.buyerRevealed # s.sellerRevealed

\* The positions in an event log of the events with this name about this session.
EventsAt(evs, name, id) ==
    {i \in 1..Len(evs) : evs[i].name = name /\ evs[i].sessionId = id}

\* evs1 extended by exactly the events tail.
Extends(evs1, evs2) ==
    /\ Len(evs2) >= Len(evs1)
    /\ SubSeq(evs2, 1, Len(evs1)) = evs1

\* This step changes the session table, the creation log or the event log.
StoreChanged == <<sessions, sessionIds, events>>' # <<sessions, sessionIds, events>>

\* ---------------------------------------------------------------- claims

\* C1: checkDeal runs exactly once per session, on the one step that makes
\* both reveal flags true; that step is a reveal of this session (it appends
\* the session's PriceRevealed event), and no other step runs checkDeal.
C1_CheckDealOnceAtSecondReveal ==
    [][\A id \in SessionIdSet :
        LET completes == ~BothRevealed(sessions[id]) /\ BothRevealed(sessions'[id])
        IN  /\ checkDealCalls'[id] = checkDealCalls[id] + (IF completes THEN 1 ELSE 0)
            /\ completes =>
                  /\ Len(events') > Len(events)
                  /\ events'[Len(events) + 1].name = "PriceRevealed"
                  /\ events'[Len(events) + 1].sessionId = id
            /\ checkDealCalls'[id] = (IF BothRevealed(sessions'[id]) THEN 1 ELSE 0)]_vars

\* C1 witness: a session between two distinct parties in which the seller
\* revealed first and the buyer second, and checkDeal has run once.
C1_Witness ==
    \E id \in SessionIdSet :
        /\ BothRevealed(sessions[id])
        /\ sessions[id].buyer # sessions[id].seller
        /\ checkDealCalls[id] = 1
        /\ \E i, j \in EventsAt(events, "PriceRevealed", id) :
              /\ i < j
              /\ events[i].revealer = sessions[id].seller
              /\ events[j].revealer = sessions[id].buyer

\* C2: once both parties have revealed, dealMatched is true exactly when the
\* public buyer price is at least the public seller price (a tie matches).
C2_MatchedIffBuyerAtLeastSeller ==
    \A id \in SessionIdSet :
        BothRevealed(sessions[id]) =>
            (sessions[id].dealMatched <=>
                sessions[id].publicBuyerPrice >= sessions[id].publicSellerPrice)

\* C2 witness: a fully revealed session with equal prices, matched.
C2_Witness ==
    \E id \in SessionIdSet :
        /\ BothRevealed(sessions[id])
        /\ sessions[id].publicBuyerPrice = sessions[id].publicSellerPrice
        /\ sessions[id].dealMatched

\* C3: dealMatched is true only in sessions where both parties have revealed.
C3_MatchedOnlyAfterBothRevealed ==
    \A id \in SessionIdSet :
        sessions[id].dealMatched => BothRevealed(sessions[id])

\* C3 witness: exactly one party has revealed, the stored prices would match
\* (the other side's is still the provisional one), and dealMatched is false.
C3_Witness ==
    \E id \in SessionIdSet :
        /\ sessions[id].sellerRevealed
        /\ ~sessions[id].buyerRevealed
        /\ sessions[id].publicBuyerPrice >= sessions[id].publicSellerPrice
        /\ ~sessions[id].dealMatched

\* The four session states of the reveal state machine.
SessionStates == {"Created", "Joined", "PartialReveal", "FullyRevealed"}

InState(s, st) ==
    CASE st = "Created"       -> s.seller = ZeroAddress /\ ~s.buyerRevealed /\ ~s.sellerRevealed
      [] st = "Joined"        -> s.seller # ZeroAddress /\ ~s.buyerRevealed /\ ~s.sellerRevealed
      [] st = "PartialReveal" -> s.seller # ZeroAddress /\ OneRevealed(s)
      [] st = "FullyRevealed" -> BothRevealed(s)

\* C4: every existing session is in exactly one of Created, Joined,
\* PartialReveal and FullyRevealed, and a session in which a party has revealed
\* has its seller bound: no reveal succeeds on a session not yet joined.
C4_RevealOnlyAfterJoin ==
    \A id \in SessionIdSet :
        Exists(id) =>
            /\ Cardinality({st \in SessionStates : InState(sessions[id], st)}) = 1
            /\ (sessions[id].buyerRevealed \/ sessions[id].sellerRevealed) =>
                  sessions[id].seller # ZeroAddress

\* C5: buyerRevealed, sellerRevealed and dealMatched never go back to false,
\* and a session gets at most one write of dealMatched (each write emits one
\* DealMatched event; none follows once dealMatched is true).
C5_FlagsMonotone ==
    [][\A id \in SessionIdSet :
        /\ sessions[id].buyerRevealed => sessions'[id].buyerRevealed
        /\ sessions[id].sellerRevealed => sessions'[id].sellerRevealed
        /\ sessions[id].dealMatched => sessions'[id].dealMatched
        /\ sessions[id].dealMatched =>
              EventsAt(events', "DealMatched", id) = EventsAt(events, "DealMatched", id)
        /\ Cardinality(EventsAt(events', "DealMatched", id)) <= 1]_vars

\* C5 witness: a matched session, and a session created after the match.
C5_Witness ==
    \E id \in SessionIdSet :
        /\ sessions[id].dealMatched
        /\ \E i \in EventsAt(events, "DealMatched", id) :
              \E j \in (i + 1)..Len(events) : events[j].name = "SessionCreated"

\* C6: a reveal for a role that has already revealed fails: with
\* AlreadyRevealed when the role's party calls, whatever clear value and proof
\* it passes; no step that changes the session table, the creation log or the
\* event log is a reveal, by any caller, for a role that has already revealed.
C6_RevealAtMostOnce ==
    /\ [](\A id \in SessionIdSet, clear \in Prices, proof \in DecryptionProofs :
            /\ sessions[id].buyerRevealed =>
                  RevealBuyerErr(sessions, sessions[id].buyer, id, clear, proof)
                      = "AlreadyRevealed"
            /\ sessions[id].sellerRevealed =>
                  RevealSellerErr(sessions, sessions[id].seller, id, clear, proof)
                      = "AlreadyRevealed")
    /\ [][StoreChanged =>
            \A id \in SessionIdSet :
              /\ sessions[id].buyerRevealed =>
                    \A a \in Addresses, clear \in Prices, proof \in DecryptionProofs :
                        ~revealBuyerPrice(a, id, clear, proof)
              /\ sessions[id].sellerRevealed =>
                    \A a \in Addresses, clear \in Prices, proof \in DecryptionProofs :
                        ~revealSellerPrice(a, id, clear, proof)]_vars

\* C6 witness: the buyer has revealed, holds a valid proof for the stored
\* ciphertext, and is refused with either clear value.
C6_Witness ==
    \E id \in SessionIdSet :
        LET s == sessions[id]
        IN  /\ s.buyerRevealed
            /\ checkSignatures(s.encryptedBuyerPrice, s.publicBuyerPrice,
                               s.encryptedBuyerPrice)
            /\ \E clear \in Prices :
                  /\ clear # s.publicBuyerPrice
                  /\ RevealBuyerErr(sessions, s.buyer, id, clear, s.encryptedBuyerPrice)
                        = "AlreadyRevealed"

\* C7: on an existing session, revealBuyerPrice by anyone but the buyer and
\* revealSellerPrice by anyone but the seller fail with Unauthorized; no step
\* that changes a role's flag or public price is a reveal by another caller,
\* and a reveal flag becomes true only in a step that is a reveal called by
\* the bound party of that role.
C7_RoleExclusive ==
    /\ [](\A a \in Addresses, id \in SessionIdSet, clear \in Prices,
             proof \in DecryptionProofs :
            Exists(id) =>
              /\ a # sessions[id].buyer =>
                    RevealBuyerErr(sessions, a, id, clear, proof) = "Unauthorized"
              /\ a # sessions[id].seller =>
                    RevealSellerErr(sessions, a, id, clear, proof) = "Unauthorized")
    /\ [][\A id \in SessionIdSet :
            /\ (\/ sessions'[id].buyerRevealed # sessions[id].buyerRevealed
                \/ sessions'[id].publicBuyerPrice # sessions[id].publicBuyerPrice) =>
                  \A a \in Addresses \ {sessions[id].buyer}, clear \in Prices,
                     proof \in DecryptionProofs :
                      ~revealBuyerPrice(a, id, clear, proof)
            /\ (\/ sessions'[id].sellerRevealed # sessions[id].sellerRevealed
                \/ sessions'[id].publicSellerPrice # sessions[id].publicSellerPrice) =>
                  \A a \in Addresses \ {sessions[id].seller}, clear \in Prices,
                     proof \in DecryptionProofs :
                      ~revealSellerPrice(a, id, clear, proof)
            /\ (~sessions[id].buyerRevealed /\ sessions'[id].buyerRevealed) =>
                  \E clear \in Prices, proof \in DecryptionProofs :
                      /\ sessions[id].buyer \in Addresses
                      /\ revealBuyerPrice(sessions[id].buyer, id, clear, proof)
            /\ (~sessions[id].sellerRevealed /\ sessions'[id].sellerRevealed) =>
                  \E clear \in Prices, proof \in DecryptionProofs :
                      /\ sessions[id].seller \in Addresses
                      /\ revealSellerPrice(sessions[id].seller, id, clear, proof)]_vars

\* C7 witness: a session between two distinct parties, both revealed, each
\* PriceRevealed event signed off by the party of its role.
C7_Witness ==
    \E id \in SessionIdSet :
        LET s == sessions[id]
        IN  /\ BothRevealed(s)
            /\ s.buyer # s.seller
            /\ \E i, j \in EventsAt(events, "PriceRevealed", id) :
                  /\ events[i].revealer = s.buyer
                  /\ events[i].price = s.publicBuyerPrice
                  /\ events[j].revealer = s.seller
                  /\ events[j].price = s.publicSellerPrice
                  /\ s.publicBuyerPrice # s.publicSellerPrice

\* C8: a join on a session whose seller is bound fails with AlreadyJoined for
\* every requester, handle and provisional price, and no step that changes
\* the store is such a join; the
\* bound seller and its ciphertext handle never change, and publicSellerPrice
\* changes only by the seller's own reveal.
C8_JoinAtMostOnce ==
    /\ [](\A id \in SessionIdSet, extS \in ExternalInputs :
            sessions[id].seller # ZeroAddress =>
                JoinErr(sessions, id, extS) = "AlreadyJoined")
    /\ [][\A id \in SessionIdSet :
            sessions[id].seller # ZeroAddress =>
              /\ StoreChanged =>
                    \A a \in Addresses, extS \in ExternalInputs, pubS \in OwnGuesses :
                        ~joinSession(a, id, extS, pubS)
              /\ sessions'[id].seller = sessions[id].seller
              /\ sessions'[id].encryptedSellerPrice = sessions[id].encryptedSellerPrice
              /\ sessions'[id].publicSellerPrice # sessions[id].publicSellerPrice =>
                    ~sessions[id].sellerRevealed /\ sessions'[id].sellerRevealed]_vars

\* C8 witness: a joined session, and another requester with a valid, different
\* handle and a different provisional price who is refused.
C8_Witness ==
    \E id \in SessionIdSet, a \in Addresses, extS \in ExternalInputs, pubS \in OwnGuesses :
        /\ sessions[id].seller # ZeroAddress
        /\ a # sessions[id].seller
        /\ extS.proofOK /\ isInitialized(extS.handle)
        /\ extS.handle # sessions[id].encryptedSellerPrice
        /\ pubS # sessions[id].publicSellerPrice
        /\ JoinErr(sessions, id, extS) = "AlreadyJoined"

\* C9: a createSession whose derived id denotes an existing session fails
\* with AlreadyExists, and no step that changes the session table, the
\* creation log or the event log is such a call; no id occurs twice in the
\* creation log.
C9_CreateCollisionRejected ==
    /\ [](/\ \A a \in Addresses, extB \in ExternalInputs, extS \in ExternalInputs :
               Exists(SessionIdOf(a, now)) =>
                   CreateErr(sessions, SessionIdOf(a, now), extB, extS) = "AlreadyExists"
           /\ \A i, j \in 1..Len(sessionIds) :
               sessionIds[i] = sessionIds[j] => i = j)
    /\ [][StoreChanged =>
            \A a \in Addresses :
                Exists(SessionIdOf(a, now)) =>
                    \A extB \in ExternalInputs, extS \in ExternalInputs,
                       pubB \in OwnGuesses, pubS \in PlaceholderGuesses :
                        ~createSession(a, extB, extS, pubB, pubS)]_vars

\* C9 witness: the session a sender would derive now exists, has been joined
\* and revealed in, and the sender's valid create is refused.
C9_Witness ==
    \E a \in Addresses, ext \in ExternalInputs :
        LET id == SessionIdOf(a, now)
        IN  /\ Exists(id)
            /\ sessions[id].seller # ZeroAddress
            /\ sessions[id].buyerRevealed
            /\ ext.proofOK /\ isInitialized(ext.handle)
            /\ CreateErr(sessions, id, ext, ext) = "AlreadyExists"
            /\ Len(sessionIds) = 1

\* C10: the creation log is exactly the ids returned by the successful
\* createSession calls, in call order; these are the ids of the existing
\* sessions, each once; and every step leaves the log alone or appends to it.
C10_CreationLog ==
    /\ [](/\ sessionIds = created
           /\ {sessionIds[i] : i \in 1..Len(sessionIds)} = {id \in SessionIdSet : Exists(id)}
           /\ Cardinality({id \in SessionIdSet : Exists(id)}) = Len(sessionIds))
    /\ [][Extends(sessionIds, sessionIds')]_vars

\* C10 witness: two sessions in the log, the later one with the smaller id.
C10_Witness ==
    /\ Len(sessionIds) = 2
    /\ sessionIds[1] > sessionIds[2]
    /\ Exists(sessionIds[1]) /\ Exists(sessionIds[2])

\* The contract state the reveal operators work on.
St == [sessions |-> sessions, events |-> events, checkDealCalls |-> checkDealCalls]

\* What a run leaves behind for session id: the match flag, the two public
\* prices and the DealMatched events (none, or the settlement).
Outcome(st, id) ==
    [dealMatched |-> st.sessions[id].dealMatched,
     publicBuyerPrice |-> st.sessions[id].publicBuyerPrice,
     publicSellerPrice |-> st.sessions[id].publicSellerPrice,
     settled |-> {st.events[i].price : i \in EventsAt(st.events, "DealMatched", id)}]

\* C11: in a joined session where nobody has revealed, for clear values b and
\* s that pass verification, both reveal orders succeed and end in the same
\* dealMatched, the same public prices and the same settlement (the
\* DealMatched prices emitted, if any).
C11_OrderIndependent ==
    \A id \in SessionIdSet, b \in Prices, s \in Prices,
       pb \in DecryptionProofs, ps \in DecryptionProofs :
        LET buyer  == sessions[id].buyer
            seller == sessions[id].seller
            viaB   == BuyerReveal(St, buyer, id, b)
            viaS   == SellerReveal(St, seller, id, s)
            bs     == SellerReveal(viaB, seller, id, s)
            sb     == BuyerReveal(viaS, buyer, id, b)
        IN  (/\ seller # ZeroAddress
             /\ ~sessions[id].buyerRevealed /\ ~sessions[id].sellerRevealed
             /\ RevealBuyerErr(sessions, buyer, id, b, pb) = "ok"
             /\ RevealSellerErr(sessions, seller, id, s, ps) = "ok")
            => /\ RevealSellerErr(viaB.sessions, seller, id, s, ps) = "ok"
               /\ RevealBuyerErr(viaS.sessions, buyer, id, b, pb) = "ok"
               /\ Outcome(bs, id) = Outcome(sb, id)
               /\ bs.sessions[id] = sb.sessions[id]

\* C11 witness: a session revealed seller first, then buyer, that matched and
\* settled at the seller's price.
C11_Witness ==
    \E id \in SessionIdSet :
        LET s  == sessions[id]
            rs == EventsAt(events, "PriceRevealed", id)
        IN  /\ BothRevealed(s) /\ s.seller # s.buyer /\ s.dealMatched
            /\ \E i \in rs, j \in rs :
                  /\ i < j
                  /\ events[i].revealer = s.seller
                  /\ events[j].revealer = s.buyer
            /\ Outcome(St, id).settled = {s.publicSellerPrice}

\* The failures an operation can report.
Errors ==
    {"NotFound", "AlreadyExists", "AlreadyJoined", "Unauthorized",
     "AlreadyRevealed", "InvalidEncryption", "InvalidProof"}

\* C12: every call ends in success or in one of the seven failures, and a call
\* that fails leaves the session table, the creation log and the event log as
\* they were: no step that changes any of them is a failing create, join,
\* revealBuyerPrice or revealSellerPrice.
C12_AllOrNothing ==
    /\ [](/\ \A a \in Addresses, extB \in ExternalInputs, extS \in ExternalInputs :
                CreateErr(sessions, SessionIdOf(a, now), extB, extS) \in Errors \cup {"ok"}
          /\ \A id \in SessionIdSet, extS \in ExternalInputs :
                JoinErr(sessions, id, extS) \in Errors \cup {"ok"}
          /\ \A a \in Addresses, id \in SessionIdSet,
                clear \in Prices, proof \in DecryptionProofs :
                /\ RevealBuyerErr(sessions, a, id, clear, proof) \in Errors \cup {"ok"}
                /\ RevealSellerErr(sessions, a, id, clear, proof) \in Errors \cup {"ok"})
    /\ [][StoreChanged =>
            /\ \A a \in Addresses, extB \in ExternalInputs, extS \in ExternalInputs :
                  CreateErr(sessions, SessionIdOf(a, now), extB, extS) # "ok" =>
                      \A pubB \in OwnGuesses, pubS \in PlaceholderGuesses :
                          ~createSession(a, extB, extS, pubB, pubS)
            /\ \A id \in SessionIdSet, extS \in ExternalInputs :
                  JoinErr(sessions, id, extS) # "ok" =>
                      \A a \in Addresses, pubS \in OwnGuesses :
                          ~joinSession(a, id, extS, pubS)
            /\ \A a \in Addresses, id \in SessionIdSet,
                  clear \in Prices, proof \in DecryptionProofs :
                  /\ RevealBuyerErr(sessions, a, id, clear, proof) # "ok" =>
                        ~revealBuyerPrice(a, id, clear, proof)
                  /\ RevealSellerErr(sessions, a, id, clear, proof) # "ok" =>
                        ~revealSellerPrice(a, id, clear, proof)]_vars

\* C12 witness: a state, reached through calls of all four operations, in which
\* each of the seven failures is the answer to some call.
C12_Witness ==
    /\ \E id \in SessionIdSet : OneRevealed(sessions[id]) /\ sessions[id].seller # ZeroAddress
    /\ \A e \in Errors :
          \/ \E a \in Addresses, extB \in ExternalInputs, extS \in ExternalInputs :
                CreateErr(sessions, SessionIdOf(a, now), extB, extS) = e
          \/ \E id \in SessionIdSet, extS \in ExternalInputs :
                JoinErr(sessions, id, extS) = e
          \/ \E a \in Addresses, id \in SessionIdSet,
                clear \in Prices, proof \in DecryptionProofs :
                \/ RevealBuyerErr(sessions, a, id, clear, proof) = e
                \/ RevealSellerErr(sessions, a, id, clear, proof) = e

\* How far a session has got: one for the bound seller, one for each reveal.
\* On the four lifecycle states it is 0, 1, 2, 3 in their order.
Rank(s) ==
    (IF s.seller # ZeroAddress THEN 1 ELSE 0)
    + (IF s.buyerRevealed THEN 1 ELSE 0)
    + (IF s.sellerRevealed THEN 1 ELSE 0)

StateOrder == [Created |-> 0, Joined |-> 1, PartialReveal |-> 2, FullyRevealed |-> 3]

\* C13: a session never moves to an earlier lifecycle state; on a
\* FullyRevealed session every join, revealBuyerPrice and revealSellerPrice
\* fails and the record never changes again, so an unmatched fully revealed
\* session keeps dealMatched = false.
C13_NoBackwardPath ==
    /\ [](\A id \in SessionIdSet :
            InState(sessions[id], "FullyRevealed") =>
                /\ \A extS \in ExternalInputs : JoinErr(sessions, id, extS) \in Errors
                /\ \A a \in Addresses, clear \in Prices, proof \in DecryptionProofs :
                      /\ RevealBuyerErr(sessions, a, id, clear, proof) \in Errors
                      /\ RevealSellerErr(sessions, a, id, clear, proof) \in Errors)
    /\ [][StoreChanged =>
            \A id \in SessionIdSet :
              /\ sessions'[id] # sessions[id] =>
                    /\ ~InState(sessions[id], "FullyRevealed")
                    /\ Rank(sessions[id]) <= Rank(sessions'[id])
                    /\ \A st1 \in SessionStates, st2 \in SessionStates :
                          (Exists(id) /\ InState(sessions[id], st1)
                                      /\ InState(sessions'[id], st2))
                              => StateOrder[st1] <= StateOrder[st2]
              /\ InState(sessions[id], "FullyRevealed") =>
                    EventsAt(events', "DealMatched", id)
                        = EventsAt(events, "DealMatched", id)]_vars

\* C13 witness: a session fully revealed without a match, still unmatched
\* after a later session was created.
C13_Witness ==
    \E id \in SessionIdSet :
        /\ InState(sessions[id], "FullyRevealed")
        /\ ~sessions[id].dealMatched
        /\ Len(created) = 2 /\ created[1] = id
        /\ \E i \in EventsAt(events, "SessionCreated", created[2]) :
              \A j \in EventsAt(events, "PriceRevealed", id) : j < i

\* C14: a match evaluation that finds a match emits exactly one DealMatched
\* for the session, carrying the seller's public price; a fully revealed
\* session whose buyer price is below its seller price, and a session whose
\* match was never evaluated, has no DealMatched event at all.
C14_SettlementEvent ==
    \A id \in SessionIdSet :
        LET s     == sessions[id]
            deals == EventsAt(events, "DealMatched", id)
        IN  IF BothRevealed(s) /\ s.publicBuyerPrice >= s.publicSellerPrice
            THEN /\ Cardinality(deals) = 1
                 /\ \A i \in deals : events[i].price = s.publicSellerPrice
            ELSE deals = {}

\* C14 witness: a session matched with the buyer's price strictly above the
\* seller's, its one DealMatched carrying the seller's price.
C14_Witness ==
    \E id \in SessionIdSet :
        /\ BothRevealed(sessions[id])
        /\ sessions[id].publicBuyerPrice > sessions[id].publicSellerPrice
        /\ \E i \in EventsAt(events, "DealMatched", id) :
              events[i].price = sessions[id].publicSellerPrice

\* The validity predicate on an ingested ciphertext: the input proof is
\* accepted and the handle is initialized.
ValidCiphertext(ext) == fromExternal(ext) # -1 /\ isInitialized(fromExternal(ext))

\* C15: on an id that does not collide, create fails with InvalidEncryption
\* exactly when the buyer's ciphertext is not valid, and fails for no other
\* reason, whatever seller ciphertext comes with the call.
C15_CreateNeedsOnlyBuyerCiphertext ==
    \A a \in Addresses, extB \in ExternalInputs, extS \in ExternalInputs :
        LET id  == SessionIdOf(a, now)
            err == CreateErr(sessions, id, extB, extS)
        IN  ~Exists(id) =>
                /\ err = "InvalidEncryption" <=> ~ValidCiphertext(extB)
                /\ err \in {"ok", "InvalidEncryption"}

\* C16: a successful create stores, under a fresh id, a session with buyer =
\* requester, seller unset, the three flags false, the supplied provisional
\* prices and a non-zero timestamp; it appends the id to the end of sessionIds,
\* emits exactly one event, SessionCreated(id, buyer, unset), and changes no
\* other session.
C16_CreateEffects ==
    [][created' # created =>
        /\ \E a \in Addresses, extB \in ExternalInputs, extS \in ExternalInputs,
              pubB \in OwnGuesses, pubS \in PlaceholderGuesses :
              createSession(a, extB, extS, pubB, pubS)
        /\ \A a \in Addresses, extB \in ExternalInputs, extS \in ExternalInputs,
              pubB \in OwnGuesses, pubS \in PlaceholderGuesses :
            LET id == SessionIdOf(a, now)
                s2 == sessions'[id]
            IN  createSession(a, extB, extS, pubB, pubS) =>
                /\ created' = Append(created, id)
                /\ ~Exists(id)
                /\ s2.buyer = a /\ s2.seller = ZeroAddress
                /\ ~s2.buyerRevealed /\ ~s2.sellerRevealed /\ ~s2.dealMatched
                /\ s2.publicBuyerPrice = pubB /\ s2.publicSellerPrice = pubS
                /\ s2.encryptedBuyerPrice = fromExternal(extB)
                /\ s2.timestamp # 0
                /\ sessionIds' = Append(sessionIds, id)
                /\ events' = Append(events,
                        [name |-> "SessionCreated", sessionId |-> id,
                         buyer |-> a, seller |-> ZeroAddress])
                /\ \A other \in SessionIdSet \ {id} : sessions'[other] = sessions[other]]_vars

\* C16 witness: a second session created, with provisional prices that differ,
\* after the first one had been joined and revealed in.
C16_Witness ==
    /\ Len(created) = 2 /\ Len(sessionIds) = 2
    /\ sessionIds[2] = created[2]
    /\ OneRevealed(sessions[created[1]]) /\ sessions[created[1]].seller # ZeroAddress
    /\ InState(sessions[created[2]], "Created")
    /\ sessions[created[2]].publicBuyerPrice # sessions[created[2]].publicSellerPrice
    /\ \E i \in EventsAt(events, "SessionCreated", created[2]) : i = Len(events)

\* C17: join fails with NotFound on a session that does not exist and with
\* InvalidEncryption on an open session when the seller ciphertext is not
\* valid; a successful join sets seller to the requester, encryptedSellerPrice
\* to the ingested handle and publicSellerPrice to the supplied price, emits
\* the one event SessionCreated(id, buyer, seller), and leaves the buyer, the
\* buyer's handle and price, the three flags, the timestamp and sessionIds
\* as they were.
C17_JoinEffects ==
    /\ [](\A id \in SessionIdSet, extS \in ExternalInputs :
            /\ ~Exists(id) => JoinErr(sessions, id, extS) = "NotFound"
            /\ (Exists(id) /\ sessions[id].seller = ZeroAddress /\ ~ValidCiphertext(extS))
                  => JoinErr(sessions, id, extS) = "InvalidEncryption")
    /\ [][StoreChanged =>
            \A id \in SessionIdSet :
              (Exists(id) /\ sessions'[id].seller # sessions[id].seller) =>
                /\ \E a \in Addresses, extS \in ExternalInputs, pubS \in OwnGuesses :
                      joinSession(a, id, extS, pubS)
                /\ \A a \in Addresses, extS \in ExternalInputs, pubS \in OwnGuesses :
                    LET s1 == sessions[id]
                        s2 == sessions'[id]
                    IN  joinSession(a, id, extS, pubS) =>
                        /\ ValidCiphertext(extS)
                        /\ s2.seller = a
                        /\ s2.encryptedSellerPrice = fromExternal(extS)
                        /\ s2.publicSellerPrice = pubS
                        /\ events' = Append(events,
                                [name |-> "SessionCreated", sessionId |-> id,
                                 buyer |-> s1.buyer, seller |-> a])
                        /\ s2.buyer = s1.buyer
                        /\ s2.encryptedBuyerPrice = s1.encryptedBuyerPrice
                        /\ s2.publicBuyerPrice = s1.publicBuyerPrice
                        /\ s2.buyerRevealed = s1.buyerRevealed
                        /\ s2.sellerRevealed = s1.sellerRevealed
                        /\ s2.dealMatched = s1.dealMatched
                        /\ s2.timestamp = s1.timestamp
                        /\ sessionIds' = sessionIds
                        /\ \A other \in SessionIdSet \ {id} :
                              sessions'[other] = sessions[other]]_vars

\* C17 witness: a session joined by another address, its stored seller handle
\* and seller price both different from what create had put there.
C17_Witness ==
    \E id \in SessionIdSet :
        LET s == sessions[id]
        IN  /\ InState(s, "Joined") /\ s.seller # s.buyer
            /\ s.publicSellerPrice \notin PlaceholderGuesses
            /\ events[Len(events)] =
                  [name |-> "SessionCreated", sessionId |-> id,
                   buyer |-> s.buyer, seller |-> s.seller]
            /\ Cardinality(EventsAt(events, "SessionCreated", id)) = 2

\* C18: a successful revealBuyerPrice sets publicBuyerPrice to the clear value
\* its decryption proof attests and buyerRevealed to true, emits
\* PriceRevealed(id, buyer, clear), and leaves buyer, seller, both handles,
\* publicSellerPrice, sellerRevealed and the timestamp as they were;
\* dealMatched changes only when the call runs checkDeal. revealSellerPrice
\* does the same with the roles exchanged.
C18_RevealEffects ==
    [][StoreChanged =>
        \A id \in SessionIdSet :
            LET s1 == sessions[id]
                s2 == sessions'[id]
                frame == /\ s2.buyer = s1.buyer /\ s2.seller = s1.seller
                         /\ s2.encryptedBuyerPrice = s1.encryptedBuyerPrice
                         /\ s2.encryptedSellerPrice = s1.encryptedSellerPrice
                         /\ s2.timestamp = s1.timestamp
                         /\ s2.dealMatched # s1.dealMatched =>
                               checkDealCalls'[id] = checkDealCalls[id] + 1
                         /\ sessionIds' = sessionIds
                         /\ \A other \in SessionIdSet \ {id} :
                               sessions'[other] = sessions[other]
            IN  /\ (~s1.buyerRevealed /\ s2.buyerRevealed) =>
                      /\ \E a \in Addresses, clear \in Prices, proof \in DecryptionProofs :
                            revealBuyerPrice(a, id, clear, proof)
                      /\ \A a \in Addresses, clear \in Prices, proof \in DecryptionProofs :
                            revealBuyerPrice(a, id, clear, proof) =>
                              /\ a = s1.buyer
                              /\ checkSignatures(s1.encryptedBuyerPrice, clear, proof)
                              /\ s2.publicBuyerPrice = clear
                              /\ events'[Len(events) + 1] =
                                    [name |-> "PriceRevealed", sessionId |-> id,
                                     revealer |-> s1.buyer, price |-> clear]
                              /\ s2.publicSellerPrice = s1.publicSellerPrice
                              /\ s2.sellerRevealed = s1.sellerRevealed
                              /\ frame
                /\ (~s1.sellerRevealed /\ s2.sellerRevealed) =>
                      /\ \E a \in Addresses, clear \in Prices, proof \in DecryptionProofs :
                            revealSellerPrice(a, id, clear, proof)
                      /\ \A a \in Addresses, clear \in Prices, proof \in DecryptionProofs :
                            revealSellerPrice(a, id, clear, proof) =>
                              /\ a = s1.seller
                              /\ checkSignatures(s1.encryptedSellerPrice, clear, proof)
                              /\ s2.publicSellerPrice = clear
                              /\ events'[Len(events) + 1] =
                                    [name |-> "PriceRevealed", sessionId |-> id,
                                     revealer |-> s1.seller, price |-> clear]
                              /\ s2.publicBuyerPrice = s1.publicBuyerPrice
                              /\ s2.buyerRevealed = s1.buyerRevealed
                              /\ frame]_vars

\* C18 witness: both parties have revealed, the public prices are the
\* committed clear values, the seller's is not the placeholder of create, and
\* the two PriceRevealed events carry them.
C18_Witness ==
    \E id \in SessionIdSet :
        LET s == sessions[id]
        IN  /\ BothRevealed(s) /\ s.seller # s.buyer
            /\ s.publicBuyerPrice = Plain(s.encryptedBuyerPrice)
            /\ s.publicSellerPrice = Plain(s.encryptedSellerPrice)
            /\ s.publicSellerPrice \notin PlaceholderGuesses
            /\ \E i \in EventsAt(events, "PriceRevealed", id),
                  j \in EventsAt(events, "PriceRevealed", id) :
                  /\ events[i] = PriceRevealed(id, s.buyer, s.publicBuyerPrice)
                  /\ events[j] = PriceRevealed(id, s.seller, s.publicSellerPrice)

\* The joins that succeeded on session id, as the log recorded them.
JoinsOf(evs, id) ==
    {i \in EventsAt(evs, "SessionCreated", id) : evs[i].seller # ZeroAddress}

\* C19: an id denotes a session that create returned exactly when its
\* timestamp is non-zero; an existing session has its seller unset exactly
\* when no join on it has succeeded; and the seller field changes value only
\* at a successful join, from unset, and never again.
C19_ExistenceAndSeller ==
    /\ [](\A id \in SessionIdSet :
            /\ (\E i \in 1..Len(created) : created[i] = id) <=> sessions[id].timestamp # 0
            /\ sessions[id].timestamp # 0 =>
                  /\ sessions[id].seller = ZeroAddress <=> JoinsOf(events, id) = {}
                  /\ Cardinality(JoinsOf(events, id)) <= 1)
    /\ [][StoreChanged =>
            \A id \in SessionIdSet :
              (Exists(id) /\ sessions'[id].seller # sessions[id].seller) =>
                  /\ sessions[id].seller = ZeroAddress
                  /\ JoinsOf(events, id) = {}
                  /\ JoinsOf(events', id) = {Len(events')}
                  /\ \E a \in Addresses, extS \in ExternalInputs, pubS \in OwnGuesses :
                        JoinErr(sessions, id, extS) = "ok" /\ joinSession(a, id, extS, pubS)]_vars

\* C19 witness: two existing sessions, the first joined and fully revealed
\* with its seller still the joiner, the second never joined; an unused id
\* has timestamp zero.
C19_Witness ==
    /\ Len(created) = 2
    /\ BothRevealed(sessions[created[1]])
    /\ \E i \in JoinsOf(events, created[1]) : events[i].seller = sessions[created[1]].seller
    /\ sessions[created[2]].timestamp # 0
    /\ sessions[created[2]].seller = ZeroAddress
    /\ \E id \in SessionIdSet : sessions[id].timestamp = 0

\* 1 for a condition that holds, 0 for one that does not.
Count(b) == IF b THEN 1 ELSE 0

\* C20: the event log only grows at its end, and for every session it holds
\* one SessionCreated for the creation plus one if the session is joined, one
\* PriceRevealed for each reveal flag that is set (none twice for one role),
\* and one DealMatched if dealMatched is set, none otherwise; an id without a
\* session has no event.
C20_EventLogAgrees ==
    /\ [](\A id \in SessionIdSet :
            LET s == sessions[id]
                reveals == EventsAt(events, "PriceRevealed", id)
            IN  /\ Cardinality(EventsAt(events, "SessionCreated", id))
                      = Count(Exists(id)) + Count(s.seller # ZeroAddress)
                /\ Cardinality(reveals) = Count(s.buyerRevealed) + Count(s.sellerRevealed)
                /\ s.buyer # s.seller =>
                      /\ Cardinality({i \in reveals : events[i].revealer = s.buyer})
                            = Count(s.buyerRevealed)
                      /\ Cardinality({i \in reveals : events[i].revealer = s.seller})
                            = Count(s.sellerRevealed)
                /\ Cardinality(EventsAt(events, "DealMatched", id)) = Count(s.dealMatched)
                /\ ~Exists(id) => \A i \in 1..Len(events) : events[i].sessionId # id)
    /\ [][/\ Len(events') >= Len(events)
          /\ \A i \in 1..Len(events) : events'[i] = events[i]]_vars

\* C20 witness: a joined, fully revealed and matched session with its two
\* SessionCreated, two PriceRevealed and one DealMatched, beside a session
\* that was only created, with its single event.
C20_Witness ==
    /\ Len(created) = 2
    /\ sessions[created[1]].dealMatched
    /\ sessions[created[1]].seller # sessions[created[1]].buyer
    /\ Cardinality(EventsAt(events, "SessionCreated", created[1])) = 2
    /\ Cardinality(EventsAt(events, "PriceRevealed", created[1])) = 2
    /\ Cardinality(EventsAt(events, "DealMatched", created[1])) = 1
    /\ Len(events) = 6

\* The places in the log of all the events of session id.
EventsOf(evs, id) == {i \in 1..Len(evs) : evs[i].sessionId = id}

\* C21: within one session the first event is the SessionCreated of its
\* creation; every PriceRevealed comes before the DealMatched; a DealMatched
\* stands right behind the second PriceRevealed, is emitted in the same step
\* as it, and is the last event of the session.
C21_EventOrder ==
    /\ [](\A id \in SessionIdSet :
            LET mine    == EventsOf(events, id)
                reveals == EventsAt(events, "PriceRevealed", id)
            IN  /\ Exists(id) =>
                      \E i \in mine :
                          /\ \A j \in mine : i <= j
                          /\ events[i] = [name |-> "SessionCreated", sessionId |-> id,
                                          buyer |-> sessions[id].buyer,
                                          seller |-> ZeroAddress]
                /\ \A d \in EventsAt(events, "DealMatched", id) :
                      /\ \A j \in mine : j <= d
                      /\ \A r \in reveals : r < d
                      /\ d - 1 \in reveals
                      /\ Cardinality(reveals) = 2)
    /\ [][events' # events =>
            \A id \in SessionIdSet :
              EventsAt(events', "DealMatched", id) # EventsAt(events, "DealMatched", id) =>
                  /\ Len(events') = Len(events) + 2
                  /\ events'[Len(events) + 1].name = "PriceRevealed"
                  /\ events'[Len(events) + 1].sessionId = id
                  /\ Cardinality(EventsAt(events, "PriceRevealed", id)) = 1
                  /\ EventsAt(events', "DealMatched", id) = {Len(events')}]_vars

\* C21 witness: a matched session whose buyer revealed second, its
\* DealMatched right behind the buyer's PriceRevealed, with the creation of
\* another session lying between its own events.
C21_Witness ==
    \E id \in SessionIdSet :
        LET s == sessions[id]
        IN  /\ s.dealMatched /\ s.seller # s.buyer
            /\ \E d \in EventsAt(events, "DealMatched", id) :
                  /\ events[d - 1] = PriceRevealed(id, s.buyer, s.publicBuyerPrice)
                  /\ events[d - 2].sessionId = id
                  /\ \E k \in 1..d : events[k].sessionId # id
            /\ events[1].sessionId = id

\* The ids create has returned: the sessions that exist.
Created == {created[i] : i \in 1..Len(created)}

\* C22: getSession, getEncryptedPrices, getAllSessionIds and isAvailable leave
\* the session table, the creation log and the event log as they are;
\* getSession and getEncryptedPrices fail with NotFound exactly on an id that
\* denotes no session and otherwise return the stored fields; isAvailable
\* returns true in every state.
C22_ReadsOnly ==
    /\ [](/\ \A id \in SessionIdSet :
                LET got    == getSessionReturn(sessions, id)
                    gotEnc == getEncryptedPricesReturn(sessions, id)
                IN  /\ got.err = "NotFound" <=> id \notin Created
                    /\ gotEnc.err = "NotFound" <=> id \notin Created
                    /\ got.err \in {"ok", "NotFound"} /\ gotEnc.err \in {"ok", "NotFound"}
                    /\ id \in Created =>
                          /\ DOMAIN got =
                                {"err", "buyer", "seller", "publicBuyerPrice",
                                 "publicSellerPrice", "buyerRevealed", "sellerRevealed",
                                 "dealMatched", "timestamp"}
                          /\ \A f \in DOMAIN got \ {"err"} : got[f] = sessions[id][f]
                          /\ DOMAIN gotEnc =
                                {"err", "encryptedBuyerPrice", "encryptedSellerPrice"}
                          /\ \A f \in DOMAIN gotEnc \ {"err"} : gotEnc[f] = sessions[id][f]
          /\ getAllSessionIdsReturn(sessionIds) = created
          /\ isAvailableReturn = TRUE)
    /\ [][(\/ \E id \in SessionIdSet : getEncryptedPrices(id) \/ getSession(id)
           \/ getAllSessionIds
           \/ isAvailable)
            => UNCHANGED <<sessions, sessionIds, events>>]_vars

\* C22 witness: one id denotes a session that has been joined, revealed in
\* and matched, so that its projection differs from the zero struct, while
\* another id denotes none.
C22_Witness ==
    \E id \in SessionIdSet, none \in SessionIdSet :
        LET got    == getSessionReturn(sessions, id)
            gotEnc == getEncryptedPricesReturn(sessions, id)
        IN  /\ getSessionReturn(sessions, none) = NotFound
            /\ getEncryptedPricesReturn(sessions, none) = NotFound
            /\ got.err = "ok" /\ gotEnc.err = "ok"
            /\ got.seller # ZeroAddress /\ got.dealMatched
            /\ gotEnc.encryptedBuyerPrice # gotEnc.encryptedSellerPrice
            /\ Len(getAllSessionIdsReturn(sessionIds)) = 2

\* The table ss with session y replaced by the record r.
With(ss, y, r) == [ss EXCEPT ![y] = r]

\* The records another session may hold: those of the table, and none.
OtherRecords == {sessions[z] : z \in SessionIdSet} \cup {EmptySession}

\* C23: operations on different sessions are independent. A join or a reveal
\* on session x, and a successful create of x, leaves every other record as
\* it was; and whether an operation on x succeeds, which failure it reports
\* and what record of x it leaves do not change when any other session y
\* holds a different record.
C23_SessionsIndependent ==
    /\ [](\A x \in SessionIdSet : \A y \in SessionIdSet \ {x}, r \in OtherRecords :
            LET ss2 == With(sessions, y, r)
                st2 == [St EXCEPT !.sessions = ss2]
            IN  /\ \A extB \in ExternalInputs, extS \in ExternalInputs :
                      /\ CreateErr(ss2, x, extB, extS) = CreateErr(sessions, x, extB, extS)
                      /\ JoinErr(ss2, x, extS) = JoinErr(sessions, x, extS)
                /\ \A a \in Addresses, clear \in Prices, proof \in DecryptionProofs :
                      /\ RevealBuyerErr(ss2, a, x, clear, proof)
                            = RevealBuyerErr(sessions, a, x, clear, proof)
                      /\ RevealSellerErr(ss2, a, x, clear, proof)
                            = RevealSellerErr(sessions, a, x, clear, proof)
                      /\ RevealBuyerErr(sessions, a, x, clear, proof) = "ok" =>
                            /\ BuyerReveal(st2, a, x, clear).sessions[x]
                                  = BuyerReveal(St, a, x, clear).sessions[x]
                            /\ BuyerReveal(st2, a, x, clear).sessions[y] = r
                      /\ RevealSellerErr(sessions, a, x, clear, proof) = "ok" =>
                            /\ SellerReveal(st2, a, x, clear).sessions[x]
                                  = SellerReveal(St, a, x, clear).sessions[x]
                            /\ SellerReveal(st2, a, x, clear).sessions[y] = r)
    /\ [][sessions' # sessions =>
            \A x \in SessionIdSet :
              sessions'[x] # sessions[x] =>
                /\ \A y \in SessionIdSet \ {x} : sessions'[y] = sessions[y]
                /\ \/ \E a \in Addresses, extB \in ExternalInputs, extS \in ExternalInputs,
                         pubB \in OwnGuesses, pubS \in PlaceholderGuesses :
                         x = SessionIdOf(a, now) /\ createSession(a, extB, extS, pubB, pubS)
                   \/ \E a \in Addresses, extS \in ExternalInputs, pubS \in OwnGuesses :
                         joinSession(a, x, extS, pubS)
                   \/ \E a \in Addresses, clear \in Prices, proof \in DecryptionProofs :
                         revealBuyerPrice(a, x, clear, proof) \/ revealSellerPrice(a, x, clear, proof)]_vars

\* C23 witness: a session was joined, revealed in by both parties and matched
\* while another session, created before it and whose stored prices match as
\* well, stayed as create left it.
C23_Witness ==
    /\ Len(created) = 2
    /\ BothRevealed(sessions[created[2]]) /\ sessions[created[2]].dealMatched
    /\ InState(sessions[created[1]], "Created")
    /\ sessions[created[1]].publicBuyerPrice >= sessions[created[1]].publicSellerPrice
    /\ ~sessions[created[1]].dealMatched

\* The contract state with other provisional prices in session id.
Provisional(st, id, pb, ps) ==
    [st EXCEPT !.sessions[id].publicBuyerPrice = pb,
               !.sessions[id].publicSellerPrice = ps]

\* C24: provisional prices never decide a match. Whenever checkDeal has run
\* on a session, both public prices are the clear values of the committed
\* handles, written by verified reveals, and the match and the settlement
\* price follow from them; and for a joined session still to be revealed in,
\* the reveals end in the same dealMatched and settlement whatever
\* provisional prices create and join had stored.
C24_ProvisionalPricesIgnored ==
    \A id \in SessionIdSet :
        LET s == sessions[id]
        IN  /\ checkDealCalls[id] > 0 =>
                  /\ BothRevealed(s)
                  /\ s.publicBuyerPrice = Plain(s.encryptedBuyerPrice)
                  /\ s.publicSellerPrice = Plain(s.encryptedSellerPrice)
                  /\ s.dealMatched <=>
                        Plain(s.encryptedBuyerPrice) >= Plain(s.encryptedSellerPrice)
                  /\ Outcome(St, id).settled =
                        IF s.dealMatched THEN {Plain(s.encryptedSellerPrice)} ELSE {}
            /\ (s.seller # ZeroAddress /\ ~s.buyerRevealed /\ ~s.sellerRevealed) =>
                  \A pb \in Prices, ps \in Prices :
                      LET b    == Plain(s.encryptedBuyerPrice)
                          c    == Plain(s.encryptedSellerPrice)
                          run  == SellerReveal(BuyerReveal(St, s.buyer, id, b),
                                               s.seller, id, c)
                          run2 == SellerReveal(BuyerReveal(Provisional(St, id, pb, ps),
                                                           s.buyer, id, b),
                                               s.seller, id, c)
                      IN  /\ RevealBuyerErr(sessions, s.buyer, id, b, s.encryptedBuyerPrice) = "ok"
                          /\ Outcome(run2, id) = Outcome(run, id)
                          /\ run2.sessions[id] = run.sessions[id]
            /\ (s.seller # ZeroAddress /\ OneRevealed(s)) =>
                  \A p \in Prices :
                      LET b    == Plain(s.encryptedBuyerPrice)
                          c    == Plain(s.encryptedSellerPrice)
                          run  == IF s.buyerRevealed
                                  THEN SellerReveal(St, s.seller, id, c)
                                  ELSE BuyerReveal(St, s.buyer, id, b)
                          run2 == IF s.buyerRevealed
                                  THEN SellerReveal(Provisional(St, id, s.publicBuyerPrice, p),
                                                    s.seller, id, c)
                                  ELSE BuyerReveal(Provisional(St, id, p, s.publicSellerPrice),
                                                   s.buyer, id, b)
                      IN  /\ Outcome(run2, id) = Outcome(run, id)
                          /\ run2.sessions[id] = run.sessions[id]

\* C24 witness: a joined session, nobody revealed, whose stored provisional
\* prices would not match while its committed prices do.
C24_Witness ==
    \E id \in SessionIdSet :
        LET s == sessions[id]
        IN  /\ s.seller # ZeroAddress /\ s.seller # s.buyer
            /\ ~s.buyerRevealed /\ ~s.sellerRevealed
            /\ Plain(s.encryptedBuyerPrice) >= Plain(s.encryptedSellerPrice)
            /\ s.publicBuyerPrice < s.publicSellerPrice

\* C25: a call that breaks several conditions reports the first in the order
\* of the checks. A reveal reports NotFound before Unauthorized, Unauthorized
\* before AlreadyRevealed and AlreadyRevealed before InvalidProof, so the
\* proof counts only once the three checks on the state have passed; join
\* reports NotFound before AlreadyJoined before InvalidEncryption; create
\* reports AlreadyExists before InvalidEncryption.
C25_ErrorPrecedence ==
    /\ \A a \in Addresses, id \in SessionIdSet, clear \in Prices, proof \in DecryptionProofs :
          LET s  == sessions[id]
              eb == RevealBuyerErr(sessions, a, id, clear, proof)
              es == RevealSellerErr(sessions, a, id, clear, proof)
          IN  /\ eb = (IF id \notin Created THEN "NotFound"
                       ELSE IF a # s.buyer THEN "Unauthorized"
                       ELSE IF s.buyerRevealed THEN "AlreadyRevealed"
                       ELSE IF ~checkSignatures(s.encryptedBuyerPrice, clear, proof)
                            THEN "InvalidProof"
                       ELSE "ok")
              /\ es = (IF id \notin Created THEN "NotFound"
                       ELSE IF a # s.seller THEN "Unauthorized"
                       ELSE IF s.sellerRevealed THEN "AlreadyRevealed"
                       ELSE IF ~checkSignatures(s.encryptedSellerPrice, clear, proof)
                            THEN "InvalidProof"
                       ELSE "ok")
    /\ \A id \in SessionIdSet, extS \in ExternalInputs :
          JoinErr(sessions, id, extS) =
              (IF id \notin Created THEN "NotFound"
               ELSE IF sessions[id].seller # ZeroAddress THEN "AlreadyJoined"
               ELSE IF ~ValidCiphertext(extS) THEN "InvalidEncryption"
               ELSE "ok")
    /\ \A a \in Addresses, extB \in ExternalInputs, extS \in ExternalInputs :
          SessionIdOf(a, now) \in Created =>
              CreateErr(sessions, SessionIdOf(a, now), extB, extS) = "AlreadyExists"

\* C25 witness: a state with a call of each kind that breaks several
\* conditions at once: a reveal by a non-party of a role already revealed,
\* with a proof that does not verify; a join with an invalid ciphertext on a
\* session already joined; a create with an invalid ciphertext on an id in use.
C25_Witness ==
    /\ \E a \in Addresses, id \in SessionIdSet, clear \in Prices, proof \in DecryptionProofs :
          /\ id \in Created /\ a # sessions[id].buyer /\ sessions[id].buyerRevealed
          /\ ~checkSignatures(sessions[id].encryptedBuyerPrice, clear, proof)
          /\ RevealBuyerErr(sessions, a, id, clear, proof) = "Unauthorized"
    /\ \E id \in SessionIdSet, extS \in ExternalInputs :
          /\ sessions[id].seller # ZeroAddress /\ ~ValidCiphertext(extS)
          /\ JoinErr(sessions, id, extS) = "AlreadyJoined"
    /\ \E a \in Addresses, extB \in ExternalInputs, extS \in ExternalInputs :
          /\ SessionIdOf(a, now) \in Created /\ ~ValidCiphertext(extB)
          /\ CreateErr(sessions, SessionIdOf(a, now), extB, extS) = "AlreadyExists"

\* C26: no reachable state blocks progress. In every state of a joined
\* session, the party of a role not yet revealed can reveal with a valid
\* proof and the call succeeds; so, with valid reveals weakly fair, every
\* joined session eventually is FullyRevealed, in whichever order the reveals
\* come: again and again all the joined sessions are fully revealed, and a
\* session once joined stays joined.
C26_JoinedEventuallyRevealed ==
    /\ [](\A id \in SessionIdSet :
            sessions[id].seller # ZeroAddress =>
                /\ ~sessions[id].buyerRevealed => ENABLED ValidBuyerReveal(id)
                /\ ~sessions[id].sellerRevealed => ENABLED ValidSellerReveal(id))
    /\ []<>(\A id \in SessionIdSet :
              sessions[id].seller # ZeroAddress => InState(sessions[id], "FullyRevealed"))
    /\ [][\A id \in SessionIdSet :
              sessions[id].seller # ZeroAddress => sessions'[id].seller # ZeroAddress]_vars

\* C26 witness: a session fully revealed without a match, the seller having
\* revealed before the buyer.
C26_Witness ==
    \E id \in SessionIdSet :
        LET s  == sessions[id]
            rs == EventsAt(events, "PriceRevealed", id)
        IN  /\ InState(s, "FullyRevealed") /\ ~s.dealMatched /\ s.seller # s.buyer
            /\ \E i \in rs, j \in rs :
                  i < j /\ events[i].revealer = s.seller /\ events[j].revealer = s.buyer

\* C27: commitments bind. The buyer's handle is the one the buyer submitted at
\* create and the seller's handle, from the join on, is the one the seller
\* itself submitted at join; neither is replaced afterwards; and the value a
\* successful reveal publishes is the clear value of that party's handle.
C27_CommitmentBinding ==
    [][StoreChanged =>
        \A id \in SessionIdSet :
            LET s1 == sessions[id]
                s2 == sessions'[id]
            IN  /\ Exists(id) => s2.encryptedBuyerPrice = s1.encryptedBuyerPrice
                /\ s1.seller # ZeroAddress =>
                      s2.encryptedSellerPrice = s1.encryptedSellerPrice
                /\ (~Exists(id) /\ s2.timestamp # 0) =>
                      \A a \in Addresses, extB \in ExternalInputs, extS \in ExternalInputs,
                         pubB \in OwnGuesses, pubS \in PlaceholderGuesses :
                          (id = SessionIdOf(a, now) /\ createSession(a, extB, extS, pubB, pubS))
                              => s2.buyer = a /\ s2.encryptedBuyerPrice = extB.handle
                /\ (Exists(id) /\ s1.seller = ZeroAddress /\ s2.seller # ZeroAddress) =>
                      \A a \in Addresses, extS \in ExternalInputs, pubS \in OwnGuesses :
                          joinSession(a, id, extS, pubS)
                              => s2.seller = a /\ s2.encryptedSellerPrice = extS.handle
                /\ (~s1.buyerRevealed /\ s2.buyerRevealed) =>
                      /\ s2.publicBuyerPrice = Plain(s1.encryptedBuyerPrice)
                      /\ events'[Len(events) + 1] =
                            PriceRevealed(id, s1.buyer, Plain(s1.encryptedBuyerPrice))
                /\ (~s1.sellerRevealed /\ s2.sellerRevealed) =>
                      /\ s1.seller # ZeroAddress
                      /\ s2.publicSellerPrice = Plain(s1.encryptedSellerPrice)
                      /\ events'[Len(events) + 1] =
                            PriceRevealed(id, s1.seller, Plain(s1.encryptedSellerPrice))]_vars

\* C27 witness: both parties of a session have revealed, the seller after the
\* buyer, and the two published values are the clear values of two different
\* handles with different plaintexts.
C27_Witness ==
    \E id \in SessionIdSet :
        LET s == sessions[id]
        IN  /\ BothRevealed(s) /\ s.seller # s.buyer
            /\ s.encryptedBuyerPrice # s.encryptedSellerPrice
            /\ s.publicSellerPrice = Plain(s.encryptedSellerPrice)
            /\ s.publicBuyerPrice = Plain(s.encryptedBuyerPrice)
            /\ s.publicBuyerPrice # s.publicSellerPrice
            /\ events[Len(events)].name = "PriceRevealed"
            /\ events[Len(events)].revealer = s.seller

\* C28: a joined session has two distinct parties: its seller differs from
\* its buyer, so no address has made both the buyer's and the seller's reveal
\* of one session.
C28_DistinctParties ==
    \A id \in SessionIdSet :
        /\ sessions[id].seller # ZeroAddress => sessions[id].seller # sessions[id].buyer
        /\ \A i \in EventsAt(events, "PriceRevealed", id),
              j \in EventsAt(events, "PriceRevealed", id) :
              i # j => events[i].revealer # events[j].revealer

\* C29: sessions persist and keep their identity. A session that exists exists
\* in every later state, and its buyer, timestamp and encryptedBuyerPrice
\* never change, whatever is called, a later create included.
C29_SessionsPersist ==
    /\ [](\A id \in Created : sessions[id].timestamp # 0
            /\ \A a \in Addresses, extB \in ExternalInputs, extS \in ExternalInputs :
                  id = SessionIdOf(a, now) => CreateErr(sessions, id, extB, extS) # "ok")
    /\ [][StoreChanged =>
            \A id \in SessionIdSet :
              Exists(id) =>
                  /\ sessions'[id].timestamp = sessions[id].timestamp
                  /\ sessions'[id].buyer = sessions[id].buyer
                  /\ sessions'[id].encryptedBuyerPrice = sessions[id].encryptedBuyerPrice]_vars

\* C29 witness: a session created at time 1 is, at a later time and after its
\* join, both reveals and another create by the same buyer with another
\* handle, still there with its buyer, timestamp and handle.
C29_Witness ==
    /\ Len(created) = 2 /\ now > 1
    /\ sessions[created[1]].timestamp = 1
    /\ BothRevealed(sessions[created[1]])
    /\ sessions[created[2]].buyer = sessions[created[1]].buyer
    /\ sessions[created[2]].encryptedBuyerPrice # sessions[created[1]].encryptedBuyerPrice
    /\ events[Len(events)] =
          SessionCreated(created[2], sessions[created[1]].buyer, ZeroAddress)

====
